---- MODULE Spec2Model ----
(***************************************************************************)
(* Model of the owning wrapper `indirect<T>` of src/indirect.h and of its  *)
(* type-erased control blocks, exercised with the stored types of          *)
(* src/test_indirect.cpp (base, derived, derived_other) and with the       *)
(* multiply-derived type of src/TestDeepPtr.cpp.                           *)
(*                                                                         *)
(* A state is: the heap of control blocks (one stored value each), the     *)
(* wrappers (view type, owning handle cb, view pointer ptr), the           *)
(* instrumentation counter derived::object_count and a record of the last  *)
(* operation performed.                                                    *)
(***************************************************************************)
EXTENDS Integers, Sequences, FiniteSets

(* ---------------------------------------------------------------- bounds *)
\* the stored ints range over 0..MaxValue; 0 is also the moved-from value
MaxValue == 1
\* heap addresses a control block can be allocated at; an assignment holds
\* the replacement block and the block being replaced at the same time, so
\* two wrappers need three of them
NumAddrs == 3

\* the two wrapper objects of a test scenario (d1/d2, b1/b2, b1/d2, ...)
Wrappers == {1, 2}
Values == 0..MaxValue
Addrs == 1..NumAddrs
Null == 0

(* ----------------------------------------------------------------- types *)
ConcreteTypes == {"derived", "derived_other", "MultiplyDerived"}
ViewTypes == {"base", "derived", "derived_other",
              "IntermediateBaseA", "IntermediateBaseB", "MultiplyDerived"}

\* the direct base classes of each class of the two test files
DirectBases(T) ==
    CASE T = "derived" -> {"base"}
      [] T = "derived_other" -> {"base"}
      [] T = "IntermediateBaseA" -> {"BaseA"}
      [] T = "IntermediateBaseB" -> {"BaseB"}
      [] T = "MultiplyDerived" -> {"IntermediateBaseA", "IntermediateBaseB"}
      [] OTHER -> {}

\* std::is_base_of<B, D>: B is D or a direct or indirect base of D
is_base_of(B, D) ==
    \/ B = D
    \/ B \in DirectBases(D)
    \/ \E M \in DirectBases(D) : B \in DirectBases(M)

\* the words of a complete object of each class, in memory order
Layout(T) ==
    CASE T = "derived" -> <<"vptr", "value">>
      [] T = "derived_other" -> <<"vptr", "value">>
      [] T = "IntermediateBaseA" -> <<"vptr", "a_", "ia_">>
      [] T = "IntermediateBaseB" -> <<"vptr", "b_", "ib_">>
      [] T = "MultiplyDerived" ->
            <<"vptr", "a_", "ia_">> \o <<"vptr", "b_", "ib_">> \o <<"value_">>
      [] OTHER -> <<"vptr">>

\* offset of the V subobject inside a complete object of class C: the
\* second direct base of MultiplyDerived starts after the first one
SubobjectOffset(C, V) ==
    IF C = "MultiplyDerived" /\ V = "IntermediateBaseB"
    THEN Len(Layout("IntermediateBaseA"))
    ELSE 0

\* distance between the stored objects of two neighbouring blocks
Stride == Len(Layout("MultiplyDerived")) + 1

\* the view types that declare get_value / set_value
HasValueInterface(V) == V \in {"base", "derived", "derived_other"}

VARIABLES heap, w, object_count, last
vars == <<heap, w, object_count, last>>

FreeBlock == [live |-> FALSE, type |-> "none", value |-> 0]
NoWrapper == [live |-> FALSE, view |-> "none", cb |-> Null, ptr |-> Null]

\* the machine state the control-block operations work on
S0 == [heap |-> heap, object_count |-> object_count]

FreeAddrs(st) == {a \in Addrs : ~st.heap[a].live}

(* ------------------------------------------------- the stored test types *)
\* ++object_count in every constructor of derived, --object_count in its
\* destructor; the other stored types are not instrumented
Counted(T) == IF T = "derived" THEN 1 ELSE 0

\* what a move constructor leaves in its source: derived zeroes it, the
\* implicit move constructors of the other types copy the int
MovedFrom(T, v) == IF T = "derived" THEN 0 ELSE v

(* -------------------------------------------------------- control blocks *)
\* std::make_unique<direct_control_block<T>>(v): a new block at address na
make_block(st, na, T, v) ==
    [heap |-> [st.heap EXCEPT ![na] = [live |-> TRUE, type |-> T, value |-> v]],
     object_count |-> st.object_count + Counted(T)]

\* ~unique_ptr<control_block>: destroys the stored value, frees the block
destroy_block(st, a) ==
    IF a = Null \/ ~st.heap[a].live THEN st
    ELSE [heap |-> [st.heap EXCEPT ![a] = FreeBlock],
          object_count |-> st.object_count - Counted(st.heap[a].type)]

\* direct_control_block<T>::ptr(): the address of the stored value t
ptr(a) == a * Stride

\* the block whose storage contains address p
BlockOf(p) == p \div Stride

\* direct_control_block<T>::copy(): a new block of the same concrete type
\* holding a copy of t; when T's copy constructor throws nothing is created
\* and cb = Null stands for the exception leaving copy()
copy_sliced(st, a, na, throws) ==
    IF throws THEN [cb |-> Null, st |-> st]
    ELSE [cb |-> na, st |-> make_block(st, na, "derived_other", st.heap[a].value)]

copy_shared(st, a, na, throws) ==
    IF throws THEN [cb |-> Null, st |-> st]
    ELSE [cb |-> a, st |-> st]

copy(st, a, na, throws) ==
    IF throws THEN [cb |-> Null, st |-> st]
    ELSE [cb |-> na, st |-> make_block(st, na, st.heap[a].type, st.heap[a].value)]

\* direct_control_block<T>::move(): a new block holding T(std::move(t));
\* the source block stays alive with its value in the moved-from state
move_steal(st, a, na) == [cb |-> a, st |-> st]

move_as_copy(st, a, na) ==
    [cb |-> na, st |-> make_block(st, na, st.heap[a].type, st.heap[a].value)]

move(st, a, na) ==
    LET b == st.heap[a]
        st1 == make_block(st, na, b.type, b.value)
    IN [cb |-> na,
        st |-> [st1 EXCEPT !.heap[a].value = MovedFrom(b.type, b.value)]]

(* ---------------------------------------------------------- indirect::data *)
\* static_cast<T*>(void*): the address is taken over as it is, whatever T
static_cast_from_void(T, p) == p

\* data::data(unique_ptr&& cb_): ptr(static_cast<T*>(cb_->ptr())), cb(cb_)
data_init(T, na) ==
    [live |-> TRUE, view |-> T, cb |-> na,
     ptr |-> static_cast_from_void(T, ptr(na))]

\* data::operator=(unique_ptr&& cb_): ptr recomputed from the new block, then
\* cb move-assigned, which destroys the block held before.
\* Yields the wrapper and the machine state.
data_assign_leak(st, wr, na) ==
    [wr |-> [wr EXCEPT !.ptr = static_cast_from_void(wr.view, ptr(na)), !.cb = na],
     st |-> st]

data_assign_keep_ptr(st, wr, na) ==
    [wr |-> [wr EXCEPT !.cb = na],
     st |-> destroy_block(st, wr.cb)]

data_assign(st, wr, na) ==
    [wr |-> [wr EXCEPT !.ptr = static_cast_from_void(wr.view, ptr(na)), !.cb = na],
     st |-> destroy_block(st, wr.cb)]

\* operator-> / operator*: the stored value as read through the view pointer
\* (get_value() is virtual: it reads the value of the complete object)
get_value(h, wr) == h[BlockOf(wr.ptr)].value

\* the address the view pointer has to hold for member access through the
\* view type: the stored object's address plus the view's subobject offset
SubobjectAddr(h, wr) == ptr(wr.cb) + SubobjectOffset(h[wr.cb].type, wr.view)

(* ------------------------------------------------ operations of indirect *)
\* Every operation yields the wrappers, the machine state and the outcome
\* ("ok", or the exception that left the operation).
Result(ws, st, outcome) == [w |-> ws, st |-> st, outcome |-> outcome]
Unchanged(outcome) == Result(w, S0, outcome)

\* indirect(): a block holding a default-constructed T
indirect_default_empty(i, T, na) ==
    Result([w EXCEPT ![i] = [live |-> TRUE, view |-> T, cb |-> Null, ptr |-> Null]],
           S0, "ok")

indirect_default(i, T, na) ==
    Result([w EXCEPT ![i] = data_init(T, na)], make_block(S0, na, T, 0), "ok")

\* indirect(in_place_t, Ts&&...) and make_indirect<T>(ts...)
indirect_in_place(i, T, v, na) ==
    Result([w EXCEPT ![i] = data_init(T, na)], make_block(S0, na, T, v), "ok")

\* indirect(U&& other): a block of dcb_t<U> built from a temporary U holding
\* v; the temporary is constructed and destroyed by the calling expression
indirect_from_value(i, T, U, v, na) ==
    LET tmp == S0.object_count + Counted(U)
        st1 == make_block([S0 EXCEPT !.object_count = tmp], na, U, v)
    IN Result([w EXCEPT ![i] = data_init(T, na)],
              [st1 EXCEPT !.object_count = @ - Counted(U)], "ok")

\* operator=(U&& other): m = make_unique<dcb_t<U>>(forward<U>(other))
indirect_assign_value(i, U, v, na) ==
    LET tmp == S0.object_count + Counted(U)
        st1 == make_block([S0 EXCEPT !.object_count = tmp], na, U, v)
        d == data_assign(st1, w[i], na)
    IN Result([w EXCEPT ![i] = d.wr],
              [d.st EXCEPT !.object_count = @ - Counted(U)], "ok")

\* indirect(indirect const&) and indirect(indirect<U> const&):
\* m(other.m.cb->copy())
indirect_copy_ctor(i, j, T, na, throws) ==
    LET c == copy(S0, w[j].cb, na, throws)
    IN IF c.cb = Null THEN Result(w, c.st, "copy_threw")
       ELSE Result([w EXCEPT ![i] = data_init(T, c.cb)], c.st, "ok")

\* indirect(indirect&&) and indirect(indirect<U>&&): m(other.m.cb->move())
indirect_move_ctor_steal(i, j, T, na) ==
    Result([w EXCEPT ![i] = data_init(T, w[j].cb),
                     ![j].cb = Null, ![j].ptr = Null], S0, "ok")

indirect_move_ctor(i, j, T, na) ==
    LET c == move(S0, w[j].cb, na)
    IN Result([w EXCEPT ![i] = data_init(T, c.cb)], c.st, "ok")

\* operator=(indirect const&) and operator=(indirect<U> const&):
\* m = other.m.cb->copy(); the copy is complete before m is touched
indirect_copy_assign_release_first(i, j, na, throws) ==
    LET st0 == destroy_block(S0, w[i].cb)
        c == copy(st0, w[j].cb, na, throws)
    IN IF c.cb = Null
       THEN Result([w EXCEPT ![i].cb = Null, ![i].ptr = Null], st0, "copy_threw")
       ELSE Result([w EXCEPT ![i] = data_init(w[i].view, c.cb)], c.st, "ok")

indirect_copy_assign(i, j, na, throws) ==
    LET c == copy(S0, w[j].cb, na, throws)
    IN IF c.cb = Null THEN Result(w, c.st, "copy_threw")
       ELSE LET d == data_assign(c.st, w[i], c.cb)
            IN Result([w EXCEPT ![i] = d.wr], d.st, "ok")

\* operator=(indirect&&) and operator=(indirect<U>&&):
\* m = other.m.cb->move()
indirect_move_assign_self_reset(i, j, na) ==
    LET c == move(S0, w[j].cb, na)
        d == data_assign(c.st, w[i], c.cb)
    IN IF i = j
       THEN Result([w EXCEPT ![i].cb = Null, ![i].ptr = Null],
                   destroy_block(S0, w[i].cb), "ok")
       ELSE Result([w EXCEPT ![i] = d.wr], d.st, "ok")

indirect_move_assign(i, j, na) ==
    LET c == move(S0, w[j].cb, na)
        d == data_assign(c.st, w[i], c.cb)
    IN Result([w EXCEPT ![i] = d.wr], d.st, "ok")

\* indirect::swap: swap(m.ptr, other.m.ptr); swap(m.cb, other.m.cb)
indirect_swap_overwrite(i, j) ==
    Result([w EXCEPT ![i].ptr = w[j].ptr, ![i].cb = w[j].cb], S0, "ok")

indirect_swap_ptr_only(i, j) ==
    Result([w EXCEPT ![i].ptr = w[j].ptr, ![j].ptr = w[i].ptr], S0, "ok")

indirect_swap(i, j) ==
    Result([w EXCEPT ![i].ptr = w[j].ptr, ![i].cb = w[j].cb,
                     ![j].ptr = w[i].ptr, ![j].cb = w[i].cb], S0, "ok")

\* ~indirect(): the unique_ptr member destroys the block
indirect_dtor_no_release(i) ==
    Result([w EXCEPT ![i] = NoWrapper], S0, "ok")

indirect_dtor(i) ==
    Result([w EXCEPT ![i] = NoWrapper], destroy_block(S0, w[i].cb), "ok")

\* (*i).set_value(v) through the view pointer
set_value(i, v) ==
    Result(w, [S0 EXCEPT !.heap[BlockOf(w[i].ptr)].value = v], "ok")

\* try_static_cast<U>(): static_cast<U*>(m.ptr) has to compile, which needs
\* U and the view type to be related by inheritance
static_cast_compiles(T, U) == is_base_of(T, U) \/ is_base_of(U, T)

\* try_dynamic_cast<U>(): dynamic_cast<U*>(m.ptr) is non-null iff the
\* complete object m.ptr points into is a U.  When m.ptr is not the address
\* of the view's subobject the dynamic_cast is undefined and either result
\* (ub) can come out.
try_dynamic_cast(wr, T, ub) ==
    IF wr.ptr = SubobjectAddr(heap, wr)
    THEN is_base_of(T, heap[wr.cb].type)
    ELSE ub

\* static_indirect_cast<T>(indirect<U> const&):
\* indirect<T>(i.m.cb->copy())
static_indirect_cast_copy(i, j, T, na, throws) ==
    LET c == copy(S0, w[j].cb, na, throws)
    IN IF c.cb = Null THEN Result(w, c.st, "copy_threw")
       ELSE Result([w EXCEPT ![i] = data_init(T, c.cb)], c.st, "ok")

\* static_indirect_cast<T>(indirect<U>&&): indirect<T>(i.m.cb->move())
static_indirect_cast_move_steal(i, j, T, na) ==
    Result([w EXCEPT ![i] = data_init(T, w[j].cb),
                     ![j].cb = Null, ![j].ptr = Null], S0, "ok")

static_indirect_cast_move(i, j, T, na) ==
    LET c == move(S0, w[j].cb, na)
    IN Result([w EXCEPT ![i] = data_init(T, c.cb)], c.st, "ok")

\* dynamic_indirect_cast<T>(indirect<U> const&): the check, then the
\* static cast
dynamic_indirect_cast_copy(i, j, T, na, throws, ub) ==
    IF ~try_dynamic_cast(w[j], T, ub) THEN Unchanged("bad_indirect_cast")
    ELSE static_indirect_cast_copy(i, j, T, na, throws)

\* dynamic_indirect_cast<T>(indirect<U>&&)
dynamic_indirect_cast_move_consume_first(i, j, T, na, ub) ==
    LET r == static_indirect_cast_move(i, j, T, na)
    IN IF try_dynamic_cast(w[j], T, ub) THEN r
       ELSE Result([r.w EXCEPT ![i] = NoWrapper],
                   destroy_block(r.st, na), "bad_indirect_cast")

dynamic_indirect_cast_move(i, j, T, na, ub) ==
    IF ~try_dynamic_cast(w[j], T, ub) THEN Unchanged("bad_indirect_cast")
    ELSE static_indirect_cast_move(i, j, T, na)

(* ------------------------------------------------------------ the actions *)
\* last: the operation just performed, its target and source wrapper (0: none),
\* the type a cast asked for, and how the operation ended
Do(r, op, dst, src, T) ==
    /\ w' = r.w
    /\ heap' = r.st.heap
    /\ object_count' = r.st.object_count
    /\ last' = [op |-> op, dst |-> dst, src |-> src, type |-> T,
                outcome |-> r.outcome]

Dead(i) == ~w[i].live
Live(i) == w[i].live

Init ==
    /\ heap = [a \in Addrs |-> FreeBlock]
    /\ w = [i \in Wrappers |-> NoWrapper]
    /\ object_count = 0
    /\ last = [op |-> "init", dst |-> 0, src |-> 0, type |-> "none", outcome |-> "ok"]

DefaultConstruct ==
    \E i \in Wrappers, T \in {"derived", "derived_other"}, na \in FreeAddrs(S0) :
        /\ Dead(i)
        /\ Do(indirect_default(i, T, na), "default_ctor", i, 0, "none")

InPlaceConstruct ==
    \E i \in Wrappers, T \in {"derived", "MultiplyDerived"}, v \in Values,
       na \in FreeAddrs(S0) :
        /\ Dead(i)
        /\ Do(indirect_in_place(i, T, v, na), "in_place_ctor", i, 0, "none")

ValueConstruct ==
    \E i \in Wrappers, T \in ViewTypes, U \in ConcreteTypes, v \in Values,
       na \in FreeAddrs(S0) :
        /\ Dead(i)
        /\ is_base_of(T, U)
        /\ Do(indirect_from_value(i, T, U, v, na), "value_ctor", i, 0, "none")

ValueAssign ==
    \E i \in Wrappers, U \in ConcreteTypes, v \in Values, na \in FreeAddrs(S0) :
        /\ Live(i)
        /\ is_base_of(w[i].view, U)
        /\ Do(indirect_assign_value(i, U, v, na), "value_assign", i, 0, "none")

CopyConstruct ==
    \E i, j \in Wrappers, T \in ViewTypes, na \in FreeAddrs(S0),
       throws \in BOOLEAN :
        /\ Dead(i) /\ Live(j)
        /\ is_base_of(T, w[j].view)
        /\ Do(indirect_copy_ctor(i, j, T, na, throws), "copy_ctor", i, j, "none")

MoveConstruct ==
    \E i, j \in Wrappers, T \in ViewTypes, na \in FreeAddrs(S0) :
        /\ Dead(i) /\ Live(j)
        /\ is_base_of(T, w[j].view)
        /\ Do(indirect_move_ctor(i, j, T, na), "move_ctor", i, j, "none")

CopyAssign ==
    \E i, j \in Wrappers, na \in FreeAddrs(S0), throws \in BOOLEAN :
        /\ Live(i) /\ Live(j)
        /\ is_base_of(w[i].view, w[j].view)
        /\ Do(indirect_copy_assign(i, j, na, throws), "copy_assign", i, j, "none")

MoveAssign ==
    \E i, j \in Wrappers, na \in FreeAddrs(S0) :
        /\ Live(i) /\ Live(j)
        /\ is_base_of(w[i].view, w[j].view)
        /\ Do(indirect_move_assign(i, j, na), "move_assign", i, j, "none")

Swap ==
    \E i, j \in Wrappers :
        /\ Live(i) /\ Live(j)
        /\ w[i].view = w[j].view
        /\ Do(indirect_swap(i, j), "swap", i, j, "none")

SetValue ==
    \E i \in Wrappers, v \in Values :
        /\ Live(i)
        /\ HasValueInterface(w[i].view)
        /\ Do(set_value(i, v), "set_value", i, 0, "none")

\* the unchecked cast is used within its contract: the stored object is a T
StaticCastCopy ==
    \E i, j \in Wrappers, T \in ViewTypes, na \in FreeAddrs(S0),
       throws \in BOOLEAN :
        /\ Dead(i) /\ Live(j)
        /\ static_cast_compiles(T, w[j].view)
        /\ is_base_of(T, heap[w[j].cb].type)
        /\ Do(static_indirect_cast_copy(i, j, T, na, throws),
              "static_cast_copy", i, j, T)

StaticCastMove ==
    \E i, j \in Wrappers, T \in ViewTypes, na \in FreeAddrs(S0) :
        /\ Dead(i) /\ Live(j)
        /\ static_cast_compiles(T, w[j].view)
        /\ is_base_of(T, heap[w[j].cb].type)
        /\ Do(static_indirect_cast_move(i, j, T, na), "static_cast_move", i, j, T)

DynamicCastCopy ==
    \E i, j \in Wrappers, T \in ViewTypes, na \in FreeAddrs(S0),
       throws \in BOOLEAN, ub \in BOOLEAN :
        /\ Dead(i) /\ Live(j)
        /\ static_cast_compiles(T, w[j].view)
        /\ Do(dynamic_indirect_cast_copy(i, j, T, na, throws, ub),
              "dynamic_cast_copy", i, j, T)

DynamicCastMove ==
    \E i, j \in Wrappers, T \in ViewTypes, na \in FreeAddrs(S0),
       ub \in BOOLEAN :
        /\ Dead(i) /\ Live(j)
        /\ static_cast_compiles(T, w[j].view)
        /\ Do(dynamic_indirect_cast_move(i, j, T, na, ub),
              "dynamic_cast_move", i, j, T)

Destroy ==
    \E i \in Wrappers :
        /\ Live(i)
        /\ Do(indirect_dtor(i), "dtor", i, 0, "none")

Next ==
    \/ DefaultConstruct \/ InPlaceConstruct \/ ValueConstruct \/ ValueAssign
    \/ CopyConstruct \/ MoveConstruct \/ CopyAssign \/ MoveAssign
    \/ Swap \/ SetValue
    \/ StaticCastCopy \/ StaticCastMove \/ DynamicCastCopy \/ DynamicCastMove
    \/ Destroy

Spec == Init /\ [][Next]_vars

(* ------------------------------------------------------------ properties *)
\* the step just taken, as recorded by last'
Did(ops) == last'.op \in ops /\ last'.outcome = "ok"
CopyOps == {"copy_ctor", "copy_assign"}
MoveOps == {"move_ctor", "move_assign"}
UnaryOps == {"default_ctor", "in_place_ctor", "value_ctor", "value_assign",
             "set_value", "dtor"}
LiveBlocks(h) == {a \in Addrs : h[a].live}
Owners(a) == {i \in Wrappers : w[i].live /\ w[i].cb = a}
BothLive == \A i \in Wrappers : w[i].live

\* C1 (deep-copy isolation): a copy construction or copy assignment from a
\* wrapper W into another wrapper W2 gives W2 a block and an access address
\* different from W's, W2 reads the value W had, and W is unchanged; and an
\* operation made through one wrapper alone (set_value, value assignment,
\* destruction, construction) never changes what any other wrapper holds or
\* reads.
C1_DeepCopyIsolation ==
    [][ /\ (Did(CopyOps) /\ last'.dst # last'.src) =>
            LET d == last'.dst
                s == last'.src
            IN /\ w'[d].cb # w[s].cb
               /\ w'[d].ptr # w[s].ptr
               /\ get_value(heap', w'[d]) = get_value(heap, w[s])
               /\ w'[s] = w[s]
               /\ heap'[w[s].cb] = heap[w[s].cb]
        /\ Did(UnaryOps) =>
            \A k \in Wrappers \ {last'.dst} :
                w[k].live =>
                    /\ w'[k] = w[k]
                    /\ heap'[w[k].cb] = heap[w[k].cb]
                    /\ get_value(heap', w'[k]) = get_value(heap, w[k])
      ]_vars

C1_Witness ==
    /\ last.op \in CopyOps /\ last.outcome = "ok" /\ last.dst # last.src
    /\ BothLive
    /\ w[last.dst].cb # w[last.src].cb
    /\ w[last.dst].ptr # w[last.src].ptr
    /\ get_value(heap, w[last.dst]) = get_value(heap, w[last.src])
    /\ get_value(heap, w[last.dst]) # 0

C3_FailedCastMutatesNothing ==
    [][ (/\ last'.op \in {"dynamic_cast_copy", "dynamic_cast_move"}
         /\ w[last'.src].live
         /\ ~is_base_of(last'.type, heap[w[last'.src].cb].type)) =>
            /\ last'.outcome = "bad_indirect_cast"
            /\ w' = w
            /\ heap' = heap
            /\ object_count' = object_count
      ]_vars

C3_Witness ==
    /\ last.op = "dynamic_cast_move" /\ last.outcome = "bad_indirect_cast"
    /\ last.type = "derived_other"
    /\ w[last.src].live /\ w[last.src].view = "base"
    /\ heap[w[last.src].cb].type = "derived"
    /\ get_value(heap, w[last.src]) # 0
    /\ ~w[last.dst].live
    /\ object_count = 1

\* C4 (single owner): every live control block is owned by exactly one live
\* wrapper.
C4_SingleOwner ==
    \A a \in Addrs : heap[a].live => Cardinality(Owners(a)) = 1

C4_Witness ==
    /\ last.op = "swap" /\ last.dst # last.src /\ BothLive
    /\ w[1].cb # w[2].cb
    /\ Cardinality(LiveBlocks(heap)) = 2

\* C5 (destroyed exactly once): the counter of live derived objects equals
\* the number of live blocks storing a derived, and once every wrapper is
\* destroyed no block is left and the counter is zero.
C5_CountBalanced ==
    /\ object_count =
         Cardinality({a \in Addrs : heap[a].live /\ heap[a].type = "derived"})
    /\ (\A i \in Wrappers : ~w[i].live) =>
         (object_count = 0 /\ LiveBlocks(heap) = {})

C5_Witness ==
    /\ last.op = "dtor"
    /\ \A i \in Wrappers : ~w[i].live
    /\ object_count = 0

\* C6 (multiple-inheritance offsets): every wrapper's view pointer is the
\* stored object's address plus the offset of the view type's subobject in
\* the stored concrete type.
C6_ViewPointerAtSubobject ==
    \A i \in Wrappers : w[i].live => w[i].ptr = SubobjectAddr(heap, w[i])

C9_TypePreservingClone ==
    [][ /\ (Did(CopyOps \cup MoveOps \cup
                {"static_cast_copy", "static_cast_move",
                 "dynamic_cast_copy", "dynamic_cast_move"})) =>
            LET d == last'.dst
                s == last'.src
            IN /\ heap'[w'[d].cb].live
               /\ heap'[w'[d].cb].type = heap[w[s].cb].type
               /\ heap'[w'[d].cb].value = heap[w[s].cb].value
        /\ \A a \in Addrs :
            (heap[a].live /\ heap'[a].live) => heap'[a].type = heap[a].type
      ]_vars

\* a derived copied through a base view into a base view is still a derived
C9_Witness ==
    /\ last.op \in CopyOps /\ last.outcome = "ok" /\ last.dst # last.src
    /\ BothLive
    /\ w[last.src].view = "base" /\ w[last.dst].view = "base"
    /\ heap[w[last.src].cb].type = "derived"
    /\ heap[w[last.dst].cb].type = "derived"
    /\ heap[w[last.dst].cb].value # 0

\* C10 (strong exception safety of copy assignment): when the clone throws,
\* target, source, heap and live count are exactly what they were (nothing
\* released, nothing leaked); when it succeeds, the replacement block was
\* allocated while the target's original block was still alive, and only
\* the original block was released.
C10_CopyAssignStrongGuarantee ==
    [][ (last'.op = "copy_assign") =>
            LET d == last'.dst
            IN IF last'.outcome = "copy_threw"
               THEN /\ w' = w
                    /\ heap' = heap
                    /\ object_count' = object_count
               ELSE /\ ~heap[w'[d].cb].live
                    /\ heap'[w'[d].cb].live
                    /\ LiveBlocks(heap') =
                         (LiveBlocks(heap) \cup {w'[d].cb}) \ {w[d].cb}
      ]_vars

C10_Witness ==
    /\ last.op = "copy_assign" /\ last.outcome = "copy_threw"
    /\ last.dst # last.src /\ BothLive
    /\ heap[w[last.dst].cb].live
    /\ get_value(heap, w[last.dst]) # get_value(heap, w[last.src])
    /\ w[last.dst].ptr = ptr(w[last.dst].cb)

\* the state a step leaves is the state the operation result r describes
Leaves(r) ==
    /\ w' = r.w
    /\ heap' = r.st.heap
    /\ object_count' = r.st.object_count

\* C11: a checked downcast to a type the stored concrete type is compatible
\* with succeeds (unless the clone itself throws) and leaves exactly the
\* state the unchecked cast of the same form leaves: the same effect on the
\* source, the same new block, and a result wrapper that reads the value
\* the source held before the call.
C11_CheckedCastAsUnchecked ==
    [][ (/\ last'.op \in {"dynamic_cast_copy", "dynamic_cast_move"}
         /\ last'.outcome # "copy_threw"
         /\ w[last'.src].live
         /\ is_base_of(last'.type, heap[w[last'.src].cb].type)) =>
            LET d == last'.dst
                s == last'.src
                T == last'.type
            IN /\ last'.outcome = "ok"
               /\ \E na \in FreeAddrs(S0) :
                    IF last'.op = "dynamic_cast_copy"
                    THEN Leaves(static_indirect_cast_copy(d, s, T, na, FALSE))
                    ELSE Leaves(static_indirect_cast_move(d, s, T, na))
               /\ w'[d].live
               /\ get_value(heap', w'[d]) = get_value(heap, w[s])
      ]_vars

\* the same statement for the wrappers whose view pointer is the address of
\* the view's subobject (every view but the second base of MultiplyDerived)
C11_CheckedCastAsUncheckedWellDefined ==
    [][ (/\ last'.op \in {"dynamic_cast_copy", "dynamic_cast_move"}
         /\ last'.outcome # "copy_threw"
         /\ w[last'.src].live
         /\ w[last'.src].ptr = SubobjectAddr(heap, w[last'.src])
         /\ is_base_of(last'.type, heap[w[last'.src].cb].type)) =>
            LET d == last'.dst
                s == last'.src
                T == last'.type
            IN /\ last'.outcome = "ok"
               /\ \E na \in FreeAddrs(S0) :
                    IF last'.op = "dynamic_cast_copy"
                    THEN Leaves(static_indirect_cast_copy(d, s, T, na, FALSE))
                    ELSE Leaves(static_indirect_cast_move(d, s, T, na))
               /\ w'[d].live
               /\ get_value(heap', w'[d]) = get_value(heap, w[s])
      ]_vars

\* C12 (move through consume-move): a move construction or move assignment
\* from a source holding v gives the target a block holding v, while the
\* source keeps owning its own block, whose value is now the moved-from one
\* (0 for derived); both wrappers stay accessible, so source and target are
\* two live stored objects, and a move construction raises the number of
\* live objects by one.
C12_MoveLeavesMovedFromSource ==
    [][ (Did(MoveOps) /\ last'.dst # last'.src) =>
            LET d == last'.dst
                s == last'.src
                v == get_value(heap, w[s])
                C == heap[w[s].cb].type
            IN /\ get_value(heap', w'[d]) = v
               /\ heap'[w'[d].cb].type = C
               /\ w'[s].cb = w[s].cb
               /\ get_value(heap', w'[s]) = (IF C = "derived" THEN 0 ELSE v)
               /\ w'[d].live /\ w'[s].live
               /\ heap'[w'[d].cb].live /\ heap'[w'[s].cb].live
               /\ Cardinality({w'[d].cb, w'[s].cb}) = 2
               /\ (last'.op = "move_ctor" =>
                     /\ Cardinality(LiveBlocks(heap')) =
                          Cardinality(LiveBlocks(heap)) + 1
                     /\ (C = "derived" => object_count' = object_count + 1))
               /\ (last'.op = "move_assign" =>
                     object_count' = object_count + Counted(C)
                                       - Counted(heap[w[d].cb].type))
      ]_vars

\* a derived moved from an indirect<derived> into an existing indirect<base>
C12_Witness ==
    /\ last.op = "move_assign" /\ last.dst # last.src /\ BothLive
    /\ w[last.src].view = "derived" /\ w[last.dst].view = "base"
    /\ heap[w[last.dst].cb].type = "derived"
    /\ get_value(heap, w[last.src]) = 0
    /\ get_value(heap, w[last.dst]) = MaxValue
    /\ object_count = 2

\* C13 (swap): swap(a, b) exchanges the blocks together with the view
\* pointers and nothing else: a holds what b held and b what a held, the heap
\* and the live count are untouched, every other wrapper is unchanged, the
\* operation always completes, and exchanging once more gives back the
\* state before.
C13_SwapExchangesOnly ==
    [][ (last'.op = "swap") =>
            LET d == last'.dst
                s == last'.src
            IN /\ last'.outcome = "ok"
               /\ w'[d].cb = w[s].cb /\ w'[d].ptr = w[s].ptr
               /\ w'[s].cb = w[d].cb /\ w'[s].ptr = w[d].ptr
               /\ w'[d].view = w[d].view /\ w'[s].view = w[s].view
               /\ w'[d].live /\ w'[s].live
               /\ heap' = heap
               /\ object_count' = object_count
               /\ \A k \in Wrappers \ {d, s} : w'[k] = w[k]
               /\ [w' EXCEPT ![d].cb = w'[s].cb, ![d].ptr = w'[s].ptr,
                             ![s].cb = w'[d].cb, ![s].ptr = w'[d].ptr] = w
      ]_vars

C13_Witness ==
    /\ last.op = "swap" /\ last.dst # last.src /\ BothLive
    /\ w[1].view = "base" /\ w[2].view = "base"
    /\ heap[w[1].cb].type # heap[w[2].cb].type
    /\ get_value(heap, w[1]) # get_value(heap, w[2])
    /\ w[1].ptr = ptr(w[1].cb) /\ w[2].ptr = ptr(w[2].cb)

\* the steps that are a default construction / an in-place construction of
\* wrapper i with stored type T (and constructor argument v) at address na
DefaultConstructStep(i, T, na) ==
    /\ Dead(i) /\ na \in FreeAddrs(S0)
    /\ Do(indirect_default(i, T, na), "default_ctor", i, 0, "none")

InPlaceConstructStep(i, T, v, na) ==
    /\ Dead(i) /\ na \in FreeAddrs(S0)
    /\ Do(indirect_in_place(i, T, v, na), "in_place_ctor", i, 0, "none")

\* what a construction of wrapper i as an indirect<T> holding v leaves: a
\* non-empty wrapper of view T owning one new block of type T that holds v,
\* every other block as before, one more live object
Constructed(i, T, v) ==
    /\ w'[i].live /\ w'[i].view = T
    /\ w'[i].cb # Null /\ w'[i].ptr # Null
    /\ ~heap[w'[i].cb].live
    /\ heap'[w'[i].cb] = [live |-> TRUE, type |-> T, value |-> v]
    /\ get_value(heap', w'[i]) = v
    /\ LiveBlocks(heap') = LiveBlocks(heap) \cup {w'[i].cb}
    /\ \A a \in LiveBlocks(heap) : heap'[a] = heap[a]
    /\ object_count' = object_count + (IF T = "derived" THEN 1 ELSE 0)
    /\ last'.outcome = "ok"

\* C14: construction always yields a non-empty wrapper: in-place construction
\* with argument v yields a wrapper owning one new block whose value is v,
\* default construction yields a wrapper owning one new block holding the
\* default value 0 (never an empty wrapper), and each raises the number of
\* live objects by exactly one.
C14_ConstructionYieldsValue ==
    [][ /\ last'.op = "default_ctor" =>
            \A i \in Wrappers, T \in ViewTypes, na \in Addrs :
                DefaultConstructStep(i, T, na) => Constructed(i, T, 0)
        /\ last'.op = "in_place_ctor" =>
            \A i \in Wrappers, T \in ViewTypes, v \in Values, na \in Addrs :
                InPlaceConstructStep(i, T, v, na) => Constructed(i, T, v)
        /\ last'.op \in {"default_ctor", "in_place_ctor"} =>
            /\ w'[last'.dst].live
            /\ w'[last'.dst].cb # Null /\ w'[last'.dst].ptr # Null
            /\ Cardinality(LiveBlocks(heap')) = Cardinality(LiveBlocks(heap)) + 1
      ]_vars

C14_Witness ==
    /\ last.op = "in_place_ctor"
    /\ w[last.dst].live /\ w[last.dst].view = "derived"
    /\ w[last.dst].cb # Null /\ w[last.dst].ptr # Null
    /\ get_value(heap, w[last.dst]) = MaxValue
    /\ object_count = 1
    /\ Cardinality(LiveBlocks(heap)) = 1

\* C15 (view-pointer consistency): every wrapper's view pointer is the
\* address direct_control_block::ptr() gives for the block the wrapper owns
\* now, that block is alive, and the pointer lies in no block another wrapper
\* owns; and whenever a step changes a wrapper's block, its view pointer
\* after the step is the one of the new block.
C15_ViewPointerInOwnBlock ==
    \A i \in Wrappers :
        w[i].live =>
            /\ w[i].cb \in Addrs
            /\ heap[w[i].cb].live
            /\ w[i].ptr = ptr(w[i].cb)
            /\ BlockOf(w[i].ptr) = w[i].cb
            /\ \A k \in Wrappers \ {i} :
                 w[k].live => BlockOf(w[i].ptr) # w[k].cb

\* a value assignment replaced the block; the pointer follows it
C15_Witness ==
    /\ last.op = "value_assign" /\ BothLive
    /\ w[last.dst].view = "base"
    /\ w[last.dst].cb = NumAddrs
    /\ w[last.dst].ptr = ptr(NumAddrs)
    /\ heap[NumAddrs].live /\ heap[NumAddrs].value # 0

\* C16: static_indirect_cast leaves the state a copy / move construction of
\* the result from the source leaves.  Copy form: the source's block and
\* value are unchanged and the result owns a new block with an equal value.
\* Move form: the result owns a new block with the source's prior value and
\* the source keeps its block with the moved-from value (0 for derived).
\* Either way source and result are two live objects.
C16_StaticCastAsConstruction ==
    [][ (Did({"static_cast_copy", "static_cast_move"})) =>
            LET d == last'.dst
                s == last'.src
                T == last'.type
                v == get_value(heap, w[s])
                C == heap[w[s].cb].type
            IN /\ \E na \in FreeAddrs(S0) :
                    IF last'.op = "static_cast_copy"
                    THEN Leaves(indirect_copy_ctor(d, s, T, na, FALSE))
                    ELSE Leaves(indirect_move_ctor(d, s, T, na))
               /\ w'[d].live /\ w'[d].view = T
               /\ w'[s] = w[s]
               /\ w'[d].cb # w[s].cb /\ ~heap[w'[d].cb].live
               /\ get_value(heap', w'[d]) = v
               /\ get_value(heap', w'[s]) =
                    (IF last'.op = "static_cast_move" /\ C = "derived"
                     THEN 0 ELSE v)
               /\ Cardinality(LiveBlocks(heap')) =
                    Cardinality(LiveBlocks(heap)) + 1
               /\ object_count' = object_count + (IF C = "derived" THEN 1 ELSE 0)
      ]_vars

\* test_indirect.cpp:381-388: b1 static cast moved to indirect<derived>
C16_Witness ==
    /\ last.op = "static_cast_move" /\ last.type = "derived" /\ BothLive
    /\ w[last.src].view = "base" /\ w[last.dst].view = "derived"
    /\ get_value(heap, w[last.src]) = 0
    /\ get_value(heap, w[last.dst]) # 0
    /\ object_count = 2

\* C17 (no wrapper is ever empty): every live wrapper, a moved-from source
\* included, owns a live control block and has a non-null view pointer, and
\* there are exactly as many live control blocks as live wrappers.
C17_NeverEmpty ==
    /\ \A i \in Wrappers :
        w[i].live =>
            /\ w[i].cb # Null /\ w[i].ptr # Null
            /\ w[i].cb \in Addrs /\ heap[w[i].cb].live
            /\ heap[BlockOf(w[i].ptr)].live
    /\ Cardinality(LiveBlocks(heap)) =
         Cardinality({i \in Wrappers : w[i].live})

\* a moved-from source after a move construction
C17_Witness ==
    /\ last.op = "move_ctor" /\ BothLive
    /\ heap[w[last.src].cb].type = "derived"
    /\ get_value(heap, w[last.src]) = 0
    /\ w[last.src].cb # Null /\ w[last.src].ptr # Null
    /\ Cardinality(LiveBlocks(heap)) = 2

====
